---- MODULE Spec2Model ----
(***************************************************************************)
(* In-memory rate limiter (RateLimiterStore, RateLimiter) and IPBlocker of *)
(* backend/app/utils/rate_limiter.py.                                       *)
(*                                                                          *)
(* Time: time.time() is a float.  The model counts time in ticks of       *)
(* 1/Res second, so that int(time.time()) (a truncation) and the raw      *)
(* float comparisons of the store's sweep are different things.           *)
(***************************************************************************)
EXTENDS Integers, Sequences, FiniteSets, TLC

VARIABLES now, nticks, buckets, lim, win, solo, histN, unswept, op,
          violations, blocked_ips, hb, bpc, bloc, block_lock,
          rate_limiter, nreq, shadow, usedDefault,
          pc, loc, ident, overlap

limiterVars == <<buckets, lim, win, solo, histN, unswept>>
blockerVars == <<violations, blocked_ips, hb, bpc, bloc, block_lock>>
requestVars == <<rate_limiter, nreq, shadow, usedDefault>>
taskVars == <<pc, loc, ident, overlap>>
vars == <<now, nticks, op, limiterVars, blockerVars, requestVars, taskVars>>

\* ---------------------------------------------------------------- bounds
Res == 2            \* ticks per second
MaxLimit == 2       \* largest limit a caller of is_allowed passes
MaxWindow == 2      \* largest window (seconds) a caller of is_allowed passes
MaxTicks == 7       \* number of time advances in one behaviour
MaxBlockerTicks == 2 \* number of time advances in one behaviour of the blocker
NTasks == 2         \* number of concurrent is_allowed calls
MaxTaskTicks == 3   \* number of time advances in one behaviour with tasks
MaxRequests == 3    \* number of rate-limited requests in one behaviour
MaxRequestTicks == 2 \* number of time advances in one behaviour with requests
NBTasks == 3        \* number of concurrent record_violation calls
MaxReset == 3       \* largest reset_time (seconds) of a stubbed Decision

Max(a, b) == IF a >= b THEN a ELSE b

\* ------------------------------------------------------- strings and keys
\* A string is a sequence of pieces; ":" is a piece of its own, so that the
\* f-string below is a concatenation and not a pair.
\* None is a value that is no string; '' is the empty sequence.
None == <<"<None>">>
Keys == {<<"test">>}
Identifiers == {<<"ip1">>, <<"ip2">>}

\* the identifiers callers of is_allowed pass: an address, no identifier, the
\* empty string and the string 'anonymous' itself
CallIdentifiers == {<<"ip1">>, None, <<>>, <<"anonymous">>}

\* Python truth value of an Optional[str]: None and '' are false
falsy(x) == x = None \/ x = <<>>

bucket_key_as_given(key, identifier) ==
    <<"rate_limit", ":">> \o key \o <<":">> \o identifier

\* f"rate_limit:{key}:{identifier or 'anonymous'}"
bucket_key(key, identifier) ==
    <<"rate_limit", ":">> \o key \o <<":">> \o
        (IF falsy(identifier) THEN <<"anonymous">> ELSE identifier)

BucketKeys == {bucket_key(k, i) : k \in Keys, i \in CallIdentifiers}
                \cup {bucket_key_as_given(k, i) : k \in Keys, i \in CallIdentifiers}

\* int(time.time())
int_time(t) == t \div Res

\* ------------------------------------------------------ RateLimiterStore
\* self.buckets[key] = bucket
store_put(store, bk, bucket) ==
    [k \in DOMAIN store \cup {bk} |-> IF k = bk THEN bucket ELSE store[k]]

cleanup_expired_skipped(store, t) == store

\* RateLimiterStore._cleanup_expired: drops v.get('reset_time', 0) < time.time()
cleanup_expired(store, t) ==
    LET keep == {k \in DOMAIN store : ~(store[k].reset_time * Res < t)}
    IN  [k \in keep |-> store[k]]

\* RateLimiterStore.set_bucket
set_bucket(store, bk, bucket, t) == cleanup_expired(store_put(store, bk, bucket), t)

\* ------------------------------------------------------------ RateLimiter
\* current_time > bucket.get('reset_time', 0)
window_expired(current_time, bucket) == current_time > bucket.reset_time

new_bucket_full(limit, window, current_time) ==
    [tokens |-> limit, last_refill |-> current_time,
     reset_time |-> current_time + window]

\* the dict built in the "Reset bucket" and "Create new bucket" branches
new_bucket(limit, window, current_time) ==
    [tokens |-> limit - 1, last_refill |-> current_time,
     reset_time |-> current_time + window]

consume_token_unfloored(bucket) == [bucket EXCEPT !.tokens = bucket.tokens - 1]

\* bucket['tokens'] = max(0, bucket.get('tokens', limit) - 1)
consume_token(bucket) == [bucket EXCEPT !.tokens = Max(0, bucket.tokens - 1)]

decision_before_consume(bucket) ==
    [allowed |-> bucket.tokens >= 0,
     remaining |-> bucket.tokens + 1,
     reset_time |-> bucket.reset_time]

\* the dict returned after set_bucket
decision(bucket) ==
    [allowed |-> bucket.tokens >= 0,
     remaining |-> Max(0, bucket.tokens),
     reset_time |-> bucket.reset_time]

fallback_short(limit, window, t) ==
    [allowed |-> TRUE, remaining |-> limit - 1, reset_time |-> int_time(t) + window]

\* the dict returned by the except branch
fallback(limit, window, t) ==
    [allowed |-> TRUE, remaining |-> limit, reset_time |-> int_time(t) + window]

is_allowed_sliding(store, key, limit, window, identifier, t, fault) ==
    LET current_time == int_time(t)
        bk == bucket_key(key, identifier)
        has == bk \in DOMAIN store
        inplace == has /\ ~window_expired(current_time, store[bk])
        bucket == IF inplace
                  THEN [consume_token(store[bk]) EXCEPT
                            !.reset_time = current_time + window]
                  ELSE new_bucket(limit, window, current_time)
    IN  CASE fault = "get" ->
                [buckets |-> store, result |-> fallback(limit, window, t)]
          [] fault = "set" ->
                [buckets |-> IF inplace THEN store_put(store, bk, bucket) ELSE store,
                 result |-> fallback(limit, window, t)]
          [] OTHER ->
                [buckets |-> set_bucket(store, bk, bucket, t),
                 result |-> decision(bucket)]

\* RateLimiter.is_allowed, run to completion on the store `store` at time t.
\* fault names the store operation that raises ("none", "get", "set").
\* The dict returned by get_bucket is the stored object itself, so the
\* "consume one token" branch has already changed the store when set_bucket
\* is reached.
is_allowed(store, key, limit, window, identifier, t, fault) ==
    LET current_time == int_time(t)
        bk == bucket_key(key, identifier)
        has == bk \in DOMAIN store
        inplace == has /\ ~window_expired(current_time, store[bk])
        bucket == IF inplace THEN consume_token(store[bk])
                  ELSE new_bucket(limit, window, current_time)
    IN  CASE fault = "get" ->
                [buckets |-> store, result |-> fallback(limit, window, t)]
          [] fault = "set" ->
                [buckets |-> IF inplace THEN store_put(store, bk, bucket) ELSE store,
                 result |-> fallback(limit, window, t)]
          [] OTHER ->
                [buckets |-> set_bucket(store, bk, bucket, t),
                 result |-> decision(bucket)]

\* is_allowed on a store whose set_bucket only assigns: the limiter the
\* sweep is compared with
is_allowed_no_sweep(store, key, limit, window, identifier, t, fault) ==
    LET current_time == int_time(t)
        bk == bucket_key(key, identifier)
        has == bk \in DOMAIN store
        inplace == has /\ ~window_expired(current_time, store[bk])
        bucket == IF inplace THEN consume_token(store[bk])
                  ELSE new_bucket(limit, window, current_time)
    IN  CASE fault = "get" ->
                [buckets |-> store, result |-> fallback(limit, window, t)]
          [] fault = "set" ->
                [buckets |-> IF inplace THEN store_put(store, bk, bucket) ELSE store,
                 result |-> fallback(limit, window, t)]
          [] OTHER ->
                [buckets |-> store_put(store, bk, bucket),
                 result |-> decision(bucket)]

\* self.default_limits
default_limits ==
    [k \in {<<"default">>, <<"auth">>, <<"api">>} |->
        IF k = <<"default">> THEN [requests |-> 1000, window |-> 60]
        ELSE IF k = <<"auth">> THEN [requests |-> 100, window |-> 60]
        ELSE [requests |-> 10000, window |-> 3600]]

limits_auth_fallback(key) ==
    IF key \in DOMAIN default_limits THEN default_limits[key]
    ELSE default_limits[<<"auth">>]

\* self.default_limits.get(key, self.default_limits['default'])
limits_for(key) ==
    IF key \in DOMAIN default_limits THEN default_limits[key]
    ELSE default_limits[<<"default">>]

\* request.client is None for a request without a client address
NoClient == <<"<no client>">>

\* request.client.host if request.client else "unknown"
client_ip(client) == IF client = NoClient THEN <<"unknown">> ELSE client

check_rate_limit_by_address(store, client, key, identifier, t, fault) ==
    LET limits == limits_for(key)
    IN  is_allowed(store, key, limits.requests, limits.window,
                   client_ip(client), t, fault)

\* RateLimiter.check_rate_limit(request, key, identifier) at time t
check_rate_limit(store, client, key, identifier, t, fault) ==
    LET request_identifier == IF falsy(identifier) THEN client_ip(client)
                              ELSE identifier
        limits == limits_for(key)
    IN  is_allowed(store, key, limits.requests, limits.window,
                   request_identifier, t, fault)

retry_after_unclamped(reset_time, t) == reset_time - int_time(t)

\* max(1, reset_time - int(time.time()))
retry_after(reset_time, t) == Max(1, reset_time - int_time(t))

\* what rate_limit_middleware and rate_limit's wrapper make of a Decision:
\* HTTP 429 with Retry-After, or the downstream response with the headers
respond(result, limit, t) ==
    IF ~result.allowed
    THEN [status |-> 429, retry_after |-> retry_after(result.reset_time, t),
          x_limit |-> limit, x_remaining |-> result.remaining,
          x_reset |-> result.reset_time]
    ELSE [status |-> 200, retry_after |-> 0,
          x_limit |-> limit, x_remaining |-> result.remaining,
          x_reset |-> result.reset_time]

\* the downstream response when no check is made
passed_through == [status |-> 200, retry_after |-> 0, x_limit |-> 0,
                   x_remaining |-> 0, x_reset |-> 0]

\* --------------------------------------------------------------- IPBlocker
violation_threshold == 10
block_duration == 3600

IPs == {<<"10.0.0.1">>, <<"10.0.0.2">>}

EmptyMap == [k \in {} |-> 0]

Remove(f, k) == [x \in DOMAIN f \ {k} |-> f[x]]
Put(f, k, v) == [x \in DOMAIN f \cup {k} |-> IF x = k THEN v ELSE f[x]]

block_live_inclusive(expire_time, t) == expire_time >= t

\* self.blocked_ips[ip] > current_time
block_live(expire_time, t) == expire_time > t

is_blocked_at_keeps_stale(b, ip, t) ==
    IF ip \in DOMAIN b.blocked_ips /\ block_live(b.blocked_ips[ip], t)
    THEN [violations |-> b.violations, blocked_ips |-> b.blocked_ips, ret |-> TRUE]
    ELSE [violations |-> b.violations,
          blocked_ips |-> Remove(b.blocked_ips, ip), ret |-> FALSE]

\* IPBlocker._is_blocked(ip, current_time) on the tables b; t in ticks
is_blocked_at(b, ip, t) ==
    IF ip \in DOMAIN b.blocked_ips /\ block_live(b.blocked_ips[ip], t)
    THEN [violations |-> b.violations, blocked_ips |-> b.blocked_ips, ret |-> TRUE]
    ELSE LET bl == Remove(b.blocked_ips, ip)
             vi == IF ip \in DOMAIN b.violations
                      /\ b.violations[ip].expire_time <= t
                   THEN Remove(b.violations, ip) ELSE b.violations
         IN  [violations |-> vi, blocked_ips |-> bl, ret |-> FALSE]

threshold_exceeded(violation_count) == violation_count > violation_threshold

\* violation_count >= self.violation_threshold
threshold_reached(violation_count) == violation_count >= violation_threshold

count_violation_keeps(c, ip, t) ==
    LET vi == IF ip \notin DOMAIN c.violations
              THEN Put(c.violations, ip,
                       [count |-> 1, expire_time |-> t + block_duration * Res])
              ELSE [c.violations EXCEPT ![ip].count = @ + 1]
        violation_count == vi[ip].count
    IN  IF threshold_reached(violation_count)
        THEN [violations |-> vi,
              blocked_ips |-> Put(c.blocked_ips, ip, t + block_duration * Res),
              ret |-> TRUE]
        ELSE [violations |-> vi, blocked_ips |-> c.blocked_ips, ret |-> FALSE]

\* record_violation after its _is_blocked check returned False: count the
\* violation and promote it to a block at the threshold
count_violation(c, ip, t) ==
    LET vi == IF ip \notin DOMAIN c.violations
              THEN Put(c.violations, ip,
                       [count |-> 1, expire_time |-> t + block_duration * Res])
              ELSE [c.violations EXCEPT ![ip].count = @ + 1]
        violation_count == vi[ip].count
    IN  IF threshold_reached(violation_count)
        THEN [violations |-> Remove(vi, ip),
              blocked_ips |-> Put(c.blocked_ips, ip, t + block_duration * Res),
              ret |-> TRUE]
        ELSE [violations |-> vi, blocked_ips |-> c.blocked_ips, ret |-> FALSE]

record_violation_counts_blocked(b, ip, t) ==
    count_violation(is_blocked_at(b, ip, t), ip, t)

\* IPBlocker.record_violation(ip) at time t
record_violation(b, ip, t) ==
    LET c == is_blocked_at(b, ip, t)
    IN  IF c.ret THEN c ELSE count_violation(c, ip, t)

\* IPBlocker.is_blocked(ip) at time t
is_blocked(b, ip, t) == is_blocked_at(b, ip, t)

unblock_ip_block_only(b, ip) ==
    [violations |-> b.violations,
     blocked_ips |-> Remove(b.blocked_ips, ip),
     ret |-> TRUE]

\* IPBlocker.unblock_ip(ip)
unblock_ip(b, ip) ==
    [violations |-> Remove(b.violations, ip),
     blocked_ips |-> Remove(b.blocked_ips, ip),
     ret |-> TRUE]

\* ------------------------------------------------------------- history
Restrict(store, bk) == [k \in DOMAIN store \cap {bk} |-> store[k]]

\* position of a call in the window opened by a call that found no bucket:
\* 1 for the opening call, +1 for each later call made before reset_time,
\* 0 once a call falls outside that pattern
\* (the count saturates at limit + 2)
NextHistN(store, bk, t, fault, n, limit) ==
    IF fault # "none" THEN 0
    ELSE IF bk \notin DOMAIN store THEN 1
    ELSE IF t < store[bk].reset_time * Res /\ n > 0
         THEN (IF n < limit + 2 THEN n + 1 ELSE n)
    ELSE 0

\* ------------------------------------------------------ blocker history
Tables == [violations |-> violations, blocked_ips |-> blocked_ips]

\* what the address looks like at time t: "clear", "violating", "blocked"
Status(b, ip, t) ==
    IF ip \in DOMAIN b.blocked_ips /\ b.blocked_ips[ip] > t THEN "blocked"
    ELSE IF ip \in DOMAIN b.violations /\ b.violations[ip].expire_time > t
    THEN "violating" ELSE "clear"

\* history of one address:
\*   streak   record_violation calls since the start or the last unblock_ip
\*            (saturating at violation_threshold + 1)
\*   ref      time of the first call of the streak, and from call number
\*            violation_threshold on the time of that call
\*   timely   every call of the streak after the first was made before
\*            ref + block_duration
\*   run      record_violation calls of the current run: a call starts a
\*            new run when there is none or when it is made block_duration
\*            or more after the first call of the run
\*   start    time of the first call of the run
NoHistory == [streak |-> 0, ref |-> 0, timely |-> TRUE, run |-> 0, start |-> 0]

HistRecord(h, t) ==
    LET ok == h.timely /\ (h.streak = 0 \/ t < h.ref + block_duration * Res)
    IN  [streak |-> IF h.streak <= violation_threshold THEN h.streak + 1
                    ELSE h.streak,
         ref |-> IF ~ok THEN 0
                 ELSE IF h.streak = 0 \/ h.streak + 1 = violation_threshold THEN t
                 ELSE h.ref,
         timely |-> ok,
         run |-> IF h.run > 0 /\ t < h.start + block_duration * Res
                 THEN (IF h.run <= violation_threshold THEN h.run + 1 ELSE h.run)
                 ELSE 1,
         start |-> IF h.run > 0 /\ t < h.start + block_duration * Res
                   THEN h.start ELSE t]

\* position of an operation in the sequence unblock_ip(a), is_blocked(a),
\* record_violation(a) of consecutive operations: 1, 2, 3 (is_blocked may
\* be left out), else 0
Phase(name, ip) ==
    IF name = "unblock_ip" THEN 1
    ELSE IF op.name \in {"unblock_ip", "is_blocked", "record_violation"}
            /\ op.ip = ip
    THEN (IF name = "is_blocked" /\ op.phase = 1 THEN 2
          ELSE IF name = "record_violation" /\ op.phase \in {1, 2} THEN 3
          ELSE 0)
    ELSE 0

BTasks == 1..NBTasks

\* the locals of one record_violation call in progress
NoBLocal == [current_time |-> 0, ret |-> FALSE, promoted |-> FALSE,
             contended |-> FALSE]

InitBlocker ==
    /\ violations = EmptyMap
    /\ blocked_ips = EmptyMap
    /\ hb = [ip \in IPs |-> NoHistory]
    /\ bpc = [t \in BTasks |-> "idle"]
    /\ bloc = [t \in BTasks |-> NoBLocal]
    /\ block_lock = 0

EmptyStore == [k \in {} |-> 0]

Tasks == 1..NTasks

NoBucket == [tokens |-> 0, last_refill |-> 0, reset_time |-> 0]
NoLocal == [identifier |-> None, current_time |-> 0, obj |-> 0, seen |-> 0,
            had |-> FALSE,
            bucket |-> NoBucket, result |-> fallback(0, 0, 0)]

\* no is_allowed call is in progress
InitTasks ==
    /\ pc = [t \in Tasks |-> "idle"]
    /\ loc = [t \in Tasks |-> NoLocal]
    /\ ident = EmptyStore
    /\ overlap = FALSE

\* _rate_limiter: Optional[RateLimiter] = None
InitRequest ==
    /\ rate_limiter = FALSE
    /\ nreq = 0
    /\ shadow = EmptyStore
    /\ usedDefault = FALSE

\* ------------------------------------------------------------- actions

InitLimiter ==
    /\ now = 0
    /\ nticks = 0
    /\ buckets = EmptyStore
    /\ lim \in [Keys -> 1..MaxLimit]
    /\ win \in [Keys -> 1..MaxWindow]
    /\ solo = [bk \in BucketKeys |-> EmptyStore]
    /\ unswept = EmptyStore
    /\ histN = [bk \in BucketKeys |-> 0]
    /\ op = [name |-> "init"]
    /\ InitBlocker
    /\ InitRequest
    /\ InitTasks

\* a caller invokes is_allowed(key, lim[key], win[key], identifier)
IsAllowed ==
    \E key \in Keys, identifier \in CallIdentifiers,
       fault \in {"none", "get", "set"} :
        LET bk == bucket_key(key, identifier)
            r == is_allowed(buckets, key, lim[key], win[key], identifier, now, fault)
            s == is_allowed(solo[bk], key, lim[key], win[key], identifier, now, fault)
        IN  /\ buckets' = r.buckets
            /\ solo' = [solo EXCEPT ![bk] = s.buckets]
            /\ histN' = [histN EXCEPT ![bk] =
                            NextHistN(buckets, bk, now, fault, histN[bk], lim[key])]
            /\ op' = [name |-> "is_allowed", key |-> key, identifier |-> identifier,
                      bk |-> bk, limit |-> lim[key], window |-> win[key],
                      fault |-> fault, at |-> now, result |-> r.result,
                      alone |-> s.result,
                      had |-> bk \in DOMAIN buckets,
                      old |-> Restrict(buckets, bk),
                      swept |-> DOMAIN buckets \ DOMAIN r.buckets]
            /\ UNCHANGED <<now, nticks, lim, win, unswept, blockerVars,
                           requestVars, taskVars>>

TickLimiter ==
    /\ nticks < MaxTicks
    /\ now' = now + 1
    /\ nticks' = nticks + 1
    /\ op' = [name |-> "tick"]
    /\ UNCHANGED <<limiterVars, blockerVars, requestVars, taskVars>>

NextLimiter == IsAllowed \/ TickLimiter

SpecLimiter == InitLimiter /\ [][NextLimiter]_vars

\* ------------------------------------------- the limiter and its sweep
\* the same is_allowed calls go to the limiter and to one whose store never
\* sweeps
IsAllowedSwept ==
    \E key \in Keys, identifier \in {<<"ip1">>, None},
       fault \in {"none", "get", "set"} :
        LET bk == bucket_key(key, identifier)
            r == is_allowed(buckets, key, lim[key], win[key], identifier, now, fault)
            u == is_allowed_no_sweep(unswept, key, lim[key], win[key], identifier,
                                     now, fault)
        IN  /\ buckets' = r.buckets
            /\ unswept' = u.buckets
            /\ op' = [name |-> "is_allowed", key |-> key, identifier |-> identifier,
                      bk |-> bk, limit |-> lim[key], window |-> win[key],
                      fault |-> fault, at |-> now, result |-> r.result,
                      plain |-> u.result,
                      swept |-> DOMAIN buckets \ DOMAIN r.buckets]
            /\ UNCHANGED <<now, nticks, lim, win, solo, histN, blockerVars,
                           requestVars, taskVars>>

NextSwept == IsAllowedSwept \/ TickLimiter

SpecSwept == InitLimiter /\ [][NextSwept]_vars

\* ------------------------------------------- one limiter, several policies
\* the policies callers pass to is_allowed as (key, limit, window)
Policies == {[key |-> <<"default">>, limit |-> 100, window |-> 3600],
             [key |-> <<"auth">>, limit |-> 10, window |-> 300],
             [key |-> <<"search">>, limit |-> 30, window |-> 300]}

\* identifiers of callers: a name and an IPv6 address
KeyedIdentifiers == {<<"ip1">>, <<":", ":", "1">>}

InitKeyed ==
    /\ now = 0 /\ nticks = 0
    /\ op = [name |-> "init", seen |-> {}]
    /\ buckets = EmptyStore /\ lim = [k \in Keys |-> 1] /\ win = [k \in Keys |-> 1]
    /\ solo = [bk \in BucketKeys |-> EmptyStore]
    /\ unswept = EmptyStore
    /\ histN = [bk \in BucketKeys |-> 0]
    /\ InitBlocker
    /\ InitRequest
    /\ InitTasks

IsAllowedKeyed_one_bucket ==
    \E p \in Policies, identifier \in KeyedIdentifiers,
       fault \in {"none", "get"} :
        LET r == is_allowed(buckets, <<"default">>, p.limit, p.window, identifier,
                            now, fault)
        IN  /\ nreq < MaxRequests
            /\ nreq' = nreq + 1
            /\ buckets' = r.buckets
            /\ op' = [name |-> "is_allowed", key |-> p.key,
                      identifier |-> identifier, fault |-> fault,
                      result |-> r.result,
                      first |-> <<p.key, identifier>> \notin op.seen,
                      seen |-> op.seen \cup {<<p.key, identifier>>}]
            /\ UNCHANGED <<now, nticks, lim, win, solo, histN, unswept, blockerVars,
                           rate_limiter, shadow, usedDefault, taskVars>>

\* a caller invokes is_allowed(key, limit, window, identifier) with the
\* limit and window of the policy; op.seen keeps the (key, identifier)
\* pairs called so far
IsAllowedKeyed ==
    \E p \in Policies, identifier \in KeyedIdentifiers,
       fault \in {"none", "get"} :
        LET r == is_allowed(buckets, p.key, p.limit, p.window, identifier,
                            now, fault)
        IN  /\ nreq < MaxRequests
            /\ nreq' = nreq + 1
            /\ buckets' = r.buckets
            /\ op' = [name |-> "is_allowed", key |-> p.key,
                      identifier |-> identifier, fault |-> fault,
                      result |-> r.result,
                      first |-> <<p.key, identifier>> \notin op.seen,
                      seen |-> op.seen \cup {<<p.key, identifier>>}]
            /\ UNCHANGED <<now, nticks, lim, win, solo, histN, unswept, blockerVars,
                           rate_limiter, shadow, usedDefault, taskVars>>

KeyedSteps == {1, 300 * Res}

TickKeyed ==
    /\ nticks < MaxRequestTicks
    /\ \E d \in KeyedSteps : now' = now + d
    /\ nticks' = nticks + 1
    /\ op' = [name |-> "tick", seen |-> op.seen]
    /\ UNCHANGED <<limiterVars, blockerVars, requestVars, taskVars>>

NextKeyed == IsAllowedKeyed \/ TickKeyed

SpecKeyed == InitKeyed /\ [][NextKeyed]_vars

\* ------------------------------------------------------- blocker actions
RecordViolationOf(ip) ==
        LET r == record_violation(Tables, ip, now)
        IN  /\ violations' = r.violations
            /\ blocked_ips' = r.blocked_ips
            /\ hb' = [hb EXCEPT ![ip] = HistRecord(@, now)]
            /\ op' = [name |-> "record_violation", ip |-> ip, ret |-> r.ret,
                      pre |-> Tables, phase |-> Phase("record_violation", ip),
                      from |-> IF Phase("record_violation", ip) = 3
                               THEN op.from ELSE "clear"]
            /\ UNCHANGED <<now, nticks, limiterVars, requestVars, taskVars,
                           bpc, bloc, block_lock>>

RecordViolation == \E ip \in IPs : RecordViolationOf(ip)

IsBlocked ==
    \E ip \in IPs :
        LET r == is_blocked(Tables, ip, now)
        IN  /\ violations' = r.violations
            /\ blocked_ips' = r.blocked_ips
            /\ op' = [name |-> "is_blocked", ip |-> ip, ret |-> r.ret,
                      pre |-> Tables, phase |-> Phase("is_blocked", ip),
                      from |-> IF Phase("is_blocked", ip) = 2
                               THEN op.from ELSE "clear"]
            /\ UNCHANGED <<now, nticks, limiterVars, hb, requestVars, taskVars,
                           bpc, bloc, block_lock>>

UnblockIp ==
    \E ip \in IPs :
        LET r == unblock_ip(Tables, ip)
        IN  /\ violations' = r.violations
            /\ blocked_ips' = r.blocked_ips
            /\ hb' = [hb EXCEPT ![ip] = NoHistory]
            /\ op' = [name |-> "unblock_ip", ip |-> ip, ret |-> r.ret,
                      pre |-> Tables, phase |-> 1,
                      from |-> Status(Tables, ip, now)]
            /\ UNCHANGED <<now, nticks, limiterVars, requestVars, taskVars,
                           bpc, bloc, block_lock>>

BlockerSteps == {1, block_duration * Res - 1}

TickBlocker ==
    /\ nticks < MaxBlockerTicks
    /\ \E d \in BlockerSteps : now' = now + d
    /\ nticks' = nticks + 1
    /\ op' = [name |-> "tick"]
    /\ UNCHANGED <<limiterVars, blockerVars, requestVars, taskVars>>

InitB ==
    /\ now = 0 /\ nticks = 0 /\ op = [name |-> "init"]
    /\ buckets = EmptyStore /\ lim = [k \in Keys |-> 1] /\ win = [k \in Keys |-> 1]
    /\ solo = [bk \in BucketKeys |-> EmptyStore]
    /\ unswept = EmptyStore
    /\ histN = [bk \in BucketKeys |-> 0]
    /\ InitBlocker
    /\ InitRequest
    /\ InitTasks

NextBlocker == RecordViolation \/ IsBlocked \/ UnblockIp \/ TickBlocker

SpecBlocker == InitB /\ [][NextBlocker]_vars

\* -------------------------------------- concurrent record_violation calls
\* Each call is a task; a task can be suspended where the code awaits: at
\* the acquisition of self.lock and at `await self._is_blocked(...)`.
TaskIP == <<"10.0.0.1">>

lock_ignored(holder) == TRUE

\* asyncio.Lock: `async with self.lock` proceeds only when no task holds it
lock_free(holder) == holder = 0

\* a call made to completion before the concurrent calls begin
PriorViolation ==
    /\ \A t \in BTasks : bpc[t] = "idle"
    /\ RecordViolationOf(TaskIP)

\* current_time = time.time(), read before the lock is requested
BeginViolation(t) ==
    /\ bpc[t] = "idle"
    /\ bpc' = [bpc EXCEPT ![t] = "lock"]
    /\ bloc' = [bloc EXCEPT ![t].current_time = now,
                            ![t].contended = (block_lock # 0)]
    /\ op' = [name |-> "task"]
    /\ UNCHANGED <<now, nticks, limiterVars, violations, blocked_ips, hb,
                   block_lock, requestVars, taskVars>>

\* async with self.lock
AcquireLock(t) ==
    /\ bpc[t] = "lock"
    /\ lock_free(block_lock)
    /\ block_lock' = t
    /\ bpc' = [bpc EXCEPT ![t] = "check"]
    /\ op' = [name |-> "task"]
    /\ UNCHANGED <<now, nticks, limiterVars, violations, blocked_ips, hb, bloc,
                   requestVars, taskVars>>

\* if await self._is_blocked(ip, current_time): return True
CheckBlocked(t) ==
    /\ bpc[t] = "check"
    /\ LET c == is_blocked_at(Tables, TaskIP, bloc[t].current_time)
       IN  /\ violations' = c.violations
           /\ blocked_ips' = c.blocked_ips
           /\ bloc' = [bloc EXCEPT ![t].ret = c.ret]
           /\ bpc' = [bpc EXCEPT ![t] = IF c.ret THEN "done" ELSE "count"]
           /\ block_lock' = IF c.ret /\ block_lock = t THEN 0 ELSE block_lock
    /\ op' = [name |-> "task"]
    /\ UNCHANGED <<now, nticks, limiterVars, hb, requestVars, taskVars>>

\* the rest of the body, up to the release of self.lock
CountViolation(t) ==
    /\ bpc[t] = "count"
    /\ LET r == count_violation(Tables, TaskIP, bloc[t].current_time)
       IN  /\ violations' = r.violations
           /\ blocked_ips' = r.blocked_ips
           /\ bloc' = [bloc EXCEPT ![t].ret = r.ret, ![t].promoted = r.ret]
    /\ bpc' = [bpc EXCEPT ![t] = "done"]
    /\ block_lock' = IF block_lock = t THEN 0 ELSE block_lock
    /\ op' = [name |-> "task"]
    /\ UNCHANGED <<now, nticks, limiterVars, hb, requestVars, taskVars>>

TickBlockerTasks ==
    /\ nticks < MaxTaskTicks
    /\ now' = now + 1
    /\ nticks' = nticks + 1
    /\ op' = [name |-> "tick"]
    /\ UNCHANGED <<limiterVars, blockerVars, requestVars, taskVars>>

NextBlockerTasks ==
    \/ PriorViolation
    \/ \E t \in BTasks : BeginViolation(t)
    \/ \E t \in BTasks : AcquireLock(t)
    \/ \E t \in BTasks : CheckBlocked(t)
    \/ \E t \in BTasks : CountViolation(t)
    \/ TickBlockerTasks

SpecBlockerTasks == InitB /\ [][NextBlockerTasks]_vars

\* ------------------------------------------------------- request actions
RequestClients == {<<"10.0.0.1">>, NoClient}
Faults == {"none", "get"}

\* the (key, identifier) arguments of the rate_limit decorators in use
Endpoints == {[key |-> <<"default">>, identifier |-> None],
              [key |-> <<"nonexistent_policy">>, identifier |-> None],
              [key |-> <<"auth">>, identifier |-> None],
              [key |-> <<"auth">>, identifier |-> <<"user123">>]}

\* the policy name with every name outside the table replaced by 'default'
Renamed(key) == IF key \in DOMAIN default_limits THEN key ELSE <<"default">>

\* set_rate_limiter(): a new RateLimiter with an empty store
SetRateLimiter ==
    /\ rate_limiter' = TRUE
    /\ buckets' = EmptyStore
    /\ shadow' = EmptyStore
    /\ usedDefault' = FALSE
    /\ op' = [name |-> "set_rate_limiter"]
    /\ UNCHANGED <<now, nticks, lim, win, solo, histN, unswept, blockerVars, nreq, taskVars>>

Checked_renamed(name, client, key, identifier, fault) ==
    LET r == check_rate_limit(buckets, client, Renamed(key), identifier, now, fault)
        d == check_rate_limit(shadow, client, Renamed(key), identifier, now, fault)
    IN  /\ nreq < MaxRequests
        /\ nreq' = nreq + 1
        /\ buckets' = r.buckets
        /\ shadow' = d.buckets
        /\ usedDefault' = (usedDefault \/ key = <<"default">>)
        /\ op' = [name |-> name, client |-> client, key |-> key,
                  identifier |-> identifier, fault |-> fault, checked |-> TRUE,
                  has_request |-> TRUE,
                  result |-> r.result, renamed |-> d.result,
                  response |-> respond(r.result, limits_for(key).requests, now)]
        /\ UNCHANGED <<now, nticks, lim, win, solo, histN, unswept, blockerVars,
                       rate_limiter, taskVars>>

\* the installed limiter runs check_rate_limit; the shadow limiter gets the
\* same call under the renamed policy name
Checked(name, client, key, identifier, fault) ==
    LET r == check_rate_limit(buckets, client, key, identifier, now, fault)
        d == check_rate_limit(shadow, client, Renamed(key), identifier, now, fault)
    IN  /\ nreq < MaxRequests
        /\ nreq' = nreq + 1
        /\ buckets' = r.buckets
        /\ shadow' = d.buckets
        /\ usedDefault' = (usedDefault \/ key = <<"default">>)
        /\ op' = [name |-> name, client |-> client, key |-> key,
                  identifier |-> identifier, fault |-> fault, checked |-> TRUE,
                  has_request |-> TRUE,
                  result |-> r.result, renamed |-> d.result,
                  response |-> respond(r.result, limits_for(key).requests, now)]
        /\ UNCHANGED <<now, nticks, lim, win, solo, histN, unswept, blockerVars,
                       rate_limiter, taskVars>>

\* the downstream handler runs without any check
Unchecked(name, client, key, identifier, has_request) ==
    /\ op' = [name |-> name, client |-> client, key |-> key,
              identifier |-> identifier, fault |-> "none", checked |-> FALSE,
              has_request |-> has_request,
              result |-> fallback(0, 0, 0), renamed |-> fallback(0, 0, 0),
              response |-> passed_through]
    /\ UNCHANGED <<now, nticks, limiterVars, blockerVars, requestVars, taskVars>>

\* SecurityUtils.rate_limit_check (security.py): with a limiter installed,
\* rate_limiter.check_rate_limit(request, 'default')
CheckRateLimit ==
    /\ rate_limiter
    /\ \E client \in RequestClients, fault \in Faults :
            Checked("check_rate_limit", client, <<"default">>, None, fault)

Middleware_lazy_limiter ==
    \E client \in RequestClients, fault \in Faults :
        Checked("middleware", client, <<"default">>, None, fault)

\* rate_limit_middleware(request, call_next)
Middleware ==
    \E client \in RequestClients, fault \in Faults :
        IF ~rate_limiter
        THEN fault = "none"
             /\ Unchecked("middleware", client, <<"default">>, None, TRUE)
        ELSE Checked("middleware", client, <<"default">>, None, fault)

\* an endpoint wrapped by rate_limit(key, identifier); has_request: a
\* request object is found among the arguments
Decorated ==
    \E ep \in Endpoints, has_request \in BOOLEAN,
       client \in RequestClients, fault \in Faults :
        IF ~has_request \/ ~rate_limiter
        THEN fault = "none"
             /\ Unchecked("decorator", client, ep.key, ep.identifier, has_request)
        ELSE Checked("decorator", client, ep.key, ep.identifier, fault)

RequestSteps == {1, 60 * Res}

TickRequest ==
    /\ nticks < MaxRequestTicks
    /\ \E d \in RequestSteps : now' = now + d
    /\ nticks' = nticks + 1
    /\ op' = [name |-> "tick"]
    /\ UNCHANGED <<limiterVars, blockerVars, requestVars, taskVars>>

\* the caller reports a denial of the client address to the blocker
ReportViolation == RecordViolationOf(<<"10.0.0.1">>)

NextRequest ==
    \/ SetRateLimiter \/ CheckRateLimit \/ Middleware \/ Decorated
    \/ TickRequest

SpecRequest == InitB /\ [][NextRequest]_vars

\* an endpoint wrapped by rate_limit(key='default'), called with a request
DecoratedDefault ==
    \E client \in RequestClients, fault \in Faults :
        IF ~rate_limiter
        THEN fault = "none"
             /\ Unchecked("decorator", client, <<"default">>, None, TRUE)
        ELSE Checked("decorator", client, <<"default">>, None, fault)

\* ---------------------------------- the wrappers over any Decision
\* The middleware and the decorator take whatever dict check_rate_limit
\* returns. Here the installed limiter is a stub that returns any Decision,
\* or the fail-open Decision when its store raises.
Decisions ==
    [allowed : BOOLEAN, remaining : 0..1, reset_time : 0..MaxReset]

Stubbed(name, client, key, identifier, fault, d) ==
    LET limits == limits_for(key)
        result == IF fault = "none" THEN d
                  ELSE fallback(limits.requests, limits.window, now)
    IN  /\ rate_limiter
        /\ fault # "none" => d = CHOOSE x \in Decisions : TRUE
        /\ op' = [name |-> name, client |-> client, key |-> key,
                  identifier |-> identifier, fault |-> fault, checked |-> TRUE,
                  has_request |-> TRUE,
                  result |-> result, renamed |-> result,
                  response |-> respond(result, limits.requests, now)]
        /\ UNCHANGED <<now, nticks, limiterVars, blockerVars, requestVars,
                       taskVars>>

\* rate_limit_middleware over the stub
StubbedMiddleware ==
    \E client \in RequestClients, fault \in Faults, d \in Decisions :
        Stubbed("middleware", client, <<"default">>, None, fault, d)

\* rate_limit's wrapper over the stub
StubbedDecorated ==
    \E ep \in Endpoints, client \in RequestClients, fault \in Faults,
       d \in Decisions :
        Stubbed("decorator", client, ep.key, ep.identifier, fault, d)

TickStubbed ==
    /\ nticks < MaxTicks
    /\ now' = now + 1
    /\ nticks' = nticks + 1
    /\ op' = [name |-> "tick"]
    /\ UNCHANGED <<limiterVars, blockerVars, requestVars, taskVars>>

NextStubbed ==
    SetRateLimiter \/ StubbedMiddleware \/ StubbedDecorated \/ TickStubbed

SpecStubbed == InitB /\ [][NextStubbed]_vars

\* the request path next to an IPBlocker that is told of violations
NextGuarded ==
    \/ SetRateLimiter \/ Middleware \/ DecoratedDefault
    \/ ReportViolation \/ TickRequest

SpecGuarded == InitB /\ [][NextGuarded]_vars

\* ---------------------------------------------------------- task actions
\* Concurrent is_allowed calls, all under the key TaskKey with limit
\* lim[TaskKey] and window win[TaskKey].  A call gives up control where it
\* awaits the store lock, so it runs in three steps: up to get_bucket, from
\* get_bucket up to set_bucket, and set_bucket to the return.
\* ident[bk] names the dict object stored under bk: 0 for one stored before
\* the tasks began, t for the one task t built.  loc[t].obj names the object
\* task t holds.
TaskKey == <<"test">>

\* an is_allowed call made before any task begins
Prior ==
    /\ \A t \in Tasks : pc[t] = "idle"
    /\ \E identifier \in Identifiers :
        LET r == is_allowed(buckets, TaskKey, lim[TaskKey], win[TaskKey],
                            identifier, now, "none")
        IN  /\ buckets' = r.buckets
            /\ ident' = [k \in DOMAIN r.buckets |-> 0]
            /\ op' = [name |-> "prior", identifier |-> identifier,
                      result |-> r.result]
    /\ UNCHANGED <<now, nticks, lim, win, solo, histN, unswept, blockerVars, requestVars,
                   pc, loc, overlap>>

\* current_time = int(time.time()); bucket_key = ...
Begin(t) ==
    /\ pc[t] = "idle"
    /\ \E identifier \in Identifiers :
            loc' = [loc EXCEPT ![t] = [NoLocal EXCEPT
                        !.identifier = identifier,
                        !.had = (bucket_key(TaskKey, identifier)
                                    \in DOMAIN buckets),
                        !.current_time = int_time(now)]]
    /\ pc' = [pc EXCEPT ![t] = "get"]
    /\ overlap' = (overlap \/ \E u \in Tasks \ {t} : pc[u] \in {"get", "set"})
    /\ op' = [name |-> "begin", task |-> t]
    /\ UNCHANGED <<now, nticks, limiterVars, blockerVars, requestVars, ident>>

GetBucket_one_bucket(t) ==
    LET bk == bucket_key(TaskKey, <<"ip1">>)
        has == bk \in DOMAIN buckets
        inplace == has /\ ~window_expired(loc[t].current_time, buckets[bk])
        changed == consume_token(buckets[bk])
    IN  /\ pc[t] = "get"
        /\ pc' = [pc EXCEPT ![t] = "set"]
        /\ IF inplace
           THEN /\ buckets' = store_put(buckets, bk, changed)
                /\ loc' = [u \in Tasks |->
                            IF u = t
                            THEN [loc[t] EXCEPT !.obj = ident[bk],
                                                !.seen = buckets[bk].tokens,
                                                !.bucket = changed]
                            ELSE IF pc[u] = "set"
                                    /\ loc[u].identifier = loc[t].identifier
                                    /\ loc[u].obj = ident[bk]
                            THEN [loc[u] EXCEPT !.bucket = changed]
                            ELSE loc[u]]
           ELSE /\ buckets' = buckets
                /\ loc' = [loc EXCEPT ![t].obj = t,
                                      ![t].seen = lim[TaskKey],
                                      ![t].bucket =
                                          new_bucket(lim[TaskKey], win[TaskKey],
                                                     loc[t].current_time)]
        /\ op' = [name |-> "get_bucket", task |-> t]
        /\ UNCHANGED <<now, nticks, lim, win, solo, histN, unswept, blockerVars,
                       requestVars, ident, overlap>>

\* bucket = await self.store.get_bucket(bucket_key), and the branch on it
GetBucket(t) ==
    LET bk == bucket_key(TaskKey, loc[t].identifier)
        has == bk \in DOMAIN buckets
        inplace == has /\ ~window_expired(loc[t].current_time, buckets[bk])
        changed == consume_token(buckets[bk])
    IN  /\ pc[t] = "get"
        /\ pc' = [pc EXCEPT ![t] = "set"]
        /\ IF inplace
           THEN /\ buckets' = store_put(buckets, bk, changed)
                /\ loc' = [u \in Tasks |->
                            IF u = t
                            THEN [loc[t] EXCEPT !.obj = ident[bk],
                                                !.seen = buckets[bk].tokens,
                                                !.bucket = changed]
                            ELSE IF pc[u] = "set"
                                    /\ loc[u].identifier = loc[t].identifier
                                    /\ loc[u].obj = ident[bk]
                            THEN [loc[u] EXCEPT !.bucket = changed]
                            ELSE loc[u]]
           ELSE /\ buckets' = buckets
                /\ loc' = [loc EXCEPT ![t].obj = t,
                                      ![t].seen = lim[TaskKey],
                                      ![t].bucket =
                                          new_bucket(lim[TaskKey], win[TaskKey],
                                                     loc[t].current_time)]
        /\ op' = [name |-> "get_bucket", task |-> t]
        /\ UNCHANGED <<now, nticks, lim, win, solo, histN, unswept, blockerVars,
                       requestVars, ident, overlap>>

\* await self.store.set_bucket(bucket_key, bucket, window); return {...}
SetBucket(t) ==
    LET bk == bucket_key(TaskKey, loc[t].identifier)
        after == set_bucket(buckets, bk, loc[t].bucket, now)
    IN  /\ pc[t] = "set"
        /\ pc' = [pc EXCEPT ![t] = "done"]
        /\ buckets' = after
        /\ ident' = [k \in DOMAIN after |->
                        IF k = bk THEN loc[t].obj ELSE ident[k]]
        /\ loc' = [loc EXCEPT ![t].result = decision(loc[t].bucket)]
        /\ op' = [name |-> "set_bucket", task |-> t]
        /\ UNCHANGED <<now, nticks, lim, win, solo, histN, unswept, blockerVars,
                       requestVars, overlap>>

TickTasks ==
    /\ nticks < MaxTaskTicks
    /\ now' = now + 1
    /\ nticks' = nticks + 1
    /\ op' = [name |-> "tick"]
    /\ UNCHANGED <<limiterVars, blockerVars, requestVars, taskVars>>

NextTasks ==
    \/ Prior
    \/ \E t \in Tasks : Begin(t)
    \/ \E t \in Tasks : GetBucket(t)
    \/ \E t \in Tasks : SetBucket(t)
    \/ TickTasks

SpecTasks == InitLimiter /\ [][NextTasks]_vars

\* ------------------------------------------------------------- claims
LastCall == op.name = "is_allowed"

\* C1: starting with no bucket, the first L calls made before reset_time
\* return allowed = TRUE and call L + 1 in the same window returns
\* allowed = FALSE with remaining = 0.
C1_LimitThenDeny ==
    (LastCall /\ histN[op.bk] > 0) =>
        /\ histN[op.bk] <= op.limit => op.result.allowed
        /\ histN[op.bk] = op.limit + 1 =>
                (~op.result.allowed /\ op.result.remaining = 0)

\* C2: calls for other identifiers do not change what a call for this
\* identifier returns: the Decision equals the one of a limiter that saw
\* only this identifier's calls.
C2_Independent ==
    LastCall => /\ op.result.allowed = op.alone.allowed
                /\ op.result.remaining = op.alone.remaining

\* the call found a bucket whose reset_time is before its current_time
C3Case ==
    /\ LastCall /\ op.fault = "none" /\ op.had
    /\ int_time(op.at) > op.old[op.bk].reset_time

\* C3: a call that finds a bucket, with whatever tokens, whose reset_time is
\* before the call's current_time (int(time.time())) leaves a fresh bucket
\* (limit - 1 tokens, reset_time = current_time + window) and returns
\* allowed, remaining = limit - 1.
C3_WindowReset ==
    C3Case =>
        /\ op.result = [allowed |-> TRUE, remaining |-> op.limit - 1,
                        reset_time |-> int_time(op.at) + op.window]
        /\ op.bk \in DOMAIN buckets
        /\ buckets[op.bk] = [tokens |-> op.limit - 1,
                             last_refill |-> int_time(op.at),
                             reset_time |-> int_time(op.at) + op.window]

C3_Witness ==
    C3Case /\ op.limit = 2 /\ op.old[op.bk].tokens = 0

\* C7: a call during which a store operation raises returns allowed = TRUE
\* and remaining = limit.
C7_FailOpen ==
    (LastCall /\ op.fault # "none") =>
        (op.result.allowed /\ op.result.remaining = op.limit)

C7_Witness ==
    LastCall /\ op.fault = "get" /\ op.had /\ op.old[op.bk].tokens = 0

LastViolation == op.name = "record_violation"

\* the call returned TRUE exactly from call number violation_threshold on,
\* and calls after that one left both tables as they were
C4Shape ==
    LET k == hb[op.ip].streak
    IN  /\ op.ret = (k >= violation_threshold)
        /\ k > violation_threshold => Tables = op.pre

\* C4 as stated: starting from no record, record_violation returns FALSE
\* for the first violation_threshold - 1 calls, TRUE for call number
\* violation_threshold and TRUE for every later call with no unblock_ip in
\* between, the later calls incrementing nothing.
C4_ThresholdAnyTime == LastViolation => C4Shape

\* C4 amended: the same, for calls made before the violation record opened
\* by the first call expires (first call + block_duration) and, after the
\* block, before the block expires (blocking call + block_duration).
C4_ThresholdInTime == (LastViolation /\ hb[op.ip].timely) => C4Shape

C4_Witness ==
    /\ LastViolation /\ hb[op.ip].timely
    /\ hb[op.ip].streak = violation_threshold + 1
    /\ now > 0

\* C5: after unblock_ip(a), from whatever state, an is_blocked(a) that
\* follows returns FALSE and the record_violation(a) that follows returns
\* FALSE and leaves a violation record with count 1.
C5_UnblockRestarts ==
    /\ (op.name = "is_blocked" /\ op.phase = 2) => ~op.ret
    /\ (LastViolation /\ op.phase = 3) =>
            /\ ~op.ret
            /\ op.ip \in DOMAIN violations
            /\ violations[op.ip].count = 1
            /\ op.ip \notin DOMAIN blocked_ips

C5_Witness ==
    /\ LastViolation /\ op.phase = 3 /\ op.from = "blocked"
    /\ op.pre = [violations |-> EmptyMap, blocked_ips |-> EmptyMap]

\* C10: is_blocked(a) returns TRUE exactly when a has a block whose
\* expire_time is later than now; the only records it removes are records
\* of a that have expired, and every other record stays as it was.
C10_IsBlockedFrame ==
    op.name = "is_blocked" =>
        /\ op.ret = (op.ip \in DOMAIN op.pre.blocked_ips
                        /\ op.pre.blocked_ips[op.ip] > now)
        /\ DOMAIN blocked_ips \subseteq DOMAIN op.pre.blocked_ips
        /\ DOMAIN violations \subseteq DOMAIN op.pre.violations
        /\ \A a \in DOMAIN op.pre.blocked_ips :
                IF a \in DOMAIN blocked_ips
                THEN blocked_ips[a] = op.pre.blocked_ips[a]
                ELSE a = op.ip /\ op.pre.blocked_ips[a] <= now
        /\ \A a \in DOMAIN op.pre.violations :
                IF a \in DOMAIN violations
                THEN violations[a] = op.pre.violations[a]
                ELSE a = op.ip /\ op.pre.violations[a].expire_time <= now
        /\ \A a \in DOMAIN op.pre.blocked_ips :
                op.pre.blocked_ips[a] > now => a \in DOMAIN blocked_ips
        /\ \A a \in DOMAIN op.pre.violations :
                op.pre.violations[a].expire_time > now => a \in DOMAIN violations

C10_Witness ==
    /\ op.name = "is_blocked" /\ ~op.ret
    /\ op.ip \in DOMAIN op.pre.blocked_ips
    /\ \E a \in DOMAIN blocked_ips : a # op.ip

\* the address has a block that has not expired
Blocked(ip) == ip \in DOMAIN blocked_ips /\ blocked_ips[ip] > now

\* C6: a request that comes through rate_limit_middleware or the
\* rate_limit decorator from an address with an unexpired block is denied.
C6_BlockDenies ==
    (op.name \in {"middleware", "decorator"} /\ op.checked
        /\ Blocked(client_ip(op.client)))
        => op.response.status = 429

\* a checked request under a policy name outside the table, in a run with
\* no request under the name 'default' itself
C8Case ==
    /\ op.name \in {"check_rate_limit", "middleware", "decorator"}
    /\ op.checked /\ ~usedDefault
    /\ op.key \notin DOMAIN default_limits

\* C8: under a policy name outside the table, check_rate_limit returns the
\* Decisions that the same requests get under 'default' (limit 1000,
\* window 60), for requests and time advances in any order.
C8_UnknownAsDefault == C8Case => op.result = op.renamed

C8_Witness ==
    /\ C8Case /\ op.fault = "none"
    /\ op.result.remaining = 998 /\ op.result.reset_time = 60
    /\ now > 0

\* tasks 1 and 2 ran overlapping calls for one identifier, both returned
\* Decisions of one window, no other task ran, and the bucket is stored
C9Case ==
    /\ pc[1] = "done" /\ pc[2] = "done"
    /\ \A t \in Tasks \ {1, 2} : pc[t] = "idle"
    /\ overlap
    /\ loc[1].identifier = loc[2].identifier
    /\ loc[1].result.reset_time = loc[2].result.reset_time
    /\ bucket_key(TaskKey, loc[1].identifier) \in DOMAIN buckets

\* C9: two concurrent is_allowed calls for one (key, identifier) in one
\* window lose no update, however their get_bucket and set_bucket steps
\* interleave: the stored tokens are two below what was available (not
\* below 0), and the two calls return different remaining values when two
\* tokens were available.
C9_NoLostUpdate ==
    C9Case =>
        LET base == Max(loc[1].seen, loc[2].seen)
            bk == bucket_key(TaskKey, loc[1].identifier)
        IN  /\ buckets[bk].tokens = Max(0, base - 2)
            /\ base >= 2 => loc[1].result.remaining # loc[2].result.remaining

\* ----------------------------------------------------------------- C15
\* the bucket of callers without an identifier, written out
AnonymousKey(key) == <<"rate_limit", ":">> \o key \o <<":", "anonymous">>

\* C15: a call of is_allowed with no identifier or an empty one returns a
\* Decision and is accounted to the bucket of 'anonymous' under its key: it
\* consumes from the bucket earlier such calls left there, and what it stores
\* is stored under that one key; a call with a non-empty identifier other
\* than 'anonymous' uses another bucket.
C15_AnonymousShared ==
    LastCall =>
        /\ op.result.allowed \in BOOLEAN
        /\ falsy(op.identifier) =>
              /\ op.bk = AnonymousKey(op.key)
              /\ op.had = (AnonymousKey(op.key) \in DOMAIN op.old)
              /\ (op.fault = "none" /\ AnonymousKey(op.key) \in DOMAIN buckets)
                    => buckets[AnonymousKey(op.key)].tokens = op.result.remaining
              /\ (op.fault = "none" /\ op.had
                     /\ int_time(op.at) <= op.old[AnonymousKey(op.key)].reset_time)
                    => op.result.remaining
                         = Max(0, op.old[AnonymousKey(op.key)].tokens - 1)
        /\ (~falsy(op.identifier) /\ op.identifier # <<"anonymous">>)
              => /\ op.bk # AnonymousKey(op.key)
                 /\ AnonymousKey(op.key) \notin DOMAIN op.old

\* a call without identifier finds the bucket an earlier call without
\* identifier opened and takes the second token from it
C15_Witness ==
    /\ LastCall
    /\ op.identifier = None
    /\ op.fault = "none"
    /\ op.had
    /\ op.limit = 2
    /\ op.result.remaining = 0
    /\ histN[op.bk] = 2

\* ----------------------------------------------------------------- C18
\* every stored bucket holds between 0 and limit - 1 tokens
TokensInRange ==
    \A bk \in DOMAIN buckets :
        \E key \in Keys :
            /\ bk \in {bucket_key(key, i) : i \in CallIdentifiers}
            /\ 0 <= buckets[bk].tokens
            /\ buckets[bk].tokens <= lim[key] - 1

\* the call found its bucket with reset_time not before its current_time
C18Unexpired ==
    /\ LastCall /\ op.had
    /\ int_time(op.at) <= op.old[op.bk].reset_time

\* the bucket of the call is in the store, one token lower than it was found,
\* or still at 0
C18Decremented ==
    op.bk \in DOMAIN buckets =>
        buckets[op.bk].tokens =
            (IF op.old[op.bk].tokens > 0 THEN op.old[op.bk].tokens - 1 ELSE 0)

\* C18 as stated: every stored bucket has 0 <= tokens <= limit - 1; a call in
\* an unexpired window leaves one token fewer, or 0 at 0; the remaining of
\* every Decision is the tokens of the stored bucket.
C18_EveryCall ==
    /\ TokensInRange
    /\ C18Unexpired => C18Decremented
    /\ (LastCall /\ op.bk \in DOMAIN buckets)
          => op.result.remaining = buckets[op.bk].tokens

\* C18, for the calls in which no store operation raises: every stored bucket
\* has 0 <= tokens <= limit - 1 after any calls; such a call in an unexpired
\* window leaves one token fewer, or 0 at 0; its remaining is the tokens of
\* its bucket as long as the bucket is stored.
C18_CompletedCalls ==
    /\ TokensInRange
    /\ (C18Unexpired /\ op.fault = "none") => C18Decremented
    /\ (LastCall /\ op.fault = "none" /\ op.bk \in DOMAIN buckets)
          => op.result.remaining = buckets[op.bk].tokens

\* a completed call in an unexpired window found 0 tokens and left 0
C18_Witness ==
    /\ C18Unexpired
    /\ op.fault = "none"
    /\ op.old[op.bk].tokens = 0
    /\ op.bk \in DOMAIN buckets
    /\ buckets[op.bk].tokens = 0
    /\ op.result.remaining = 0

\* ----------------------------------------------------------------- C19
\* C19: the k-th call in a window opened from no bucket, for k from 1 to
\* limit, returns allowed = TRUE and remaining = limit - k; the first one
\* returns remaining = limit - 1 and a reset_time later than the time of the
\* call.
C19_KthCall ==
    (LastCall /\ histN[op.bk] >= 1 /\ histN[op.bk] <= op.limit) =>
        /\ op.result.allowed
        /\ op.result.remaining = op.limit - histN[op.bk]
        /\ histN[op.bk] = 1 =>
              /\ op.result.remaining = op.limit - 1
              /\ op.result.reset_time * Res > op.at

\* the last allowed call of a window of limit 2, made after time 0
C19_Witness ==
    /\ LastCall
    /\ op.limit = 2
    /\ histN[op.bk] = 2
    /\ op.at > 0
    /\ op.result.allowed
    /\ op.result.remaining = 0

\* ----------------------------------------------------------------- C20
\* C20: right after an is_allowed call in which no store operation raised,
\* that is right after its set_bucket, the store holds no bucket, under any
\* key, whose reset_time is earlier than the time of the call.
C20_NoExpiredAfterWrite ==
    (LastCall /\ op.fault = "none") =>
        \A bk \in DOMAIN buckets : ~(buckets[bk].reset_time * Res < op.at)

\* the write of a call removed the expired bucket of another identifier
C20_Witness ==
    /\ LastCall
    /\ op.fault = "none"
    /\ \E bk \in op.swept : bk # op.bk
    /\ op.bk \in DOMAIN buckets

\* ----------------------------------------------------------------- C13
LastUnblock == op.name = "unblock_ip"

\* C13: unblock_ip returns TRUE and leaves its address with no violation
\* record and no block record, whatever the address had before; the records
\* of every other address are as they were; a second unblock_ip of the same
\* address changes nothing.
C13_UnblockClears ==
    LastUnblock =>
        /\ op.ret
        /\ op.ip \notin DOMAIN violations
        /\ op.ip \notin DOMAIN blocked_ips
        /\ DOMAIN violations = DOMAIN op.pre.violations \ {op.ip}
        /\ DOMAIN blocked_ips = DOMAIN op.pre.blocked_ips \ {op.ip}
        /\ \A ip \in DOMAIN violations : violations[ip] = op.pre.violations[ip]
        /\ \A ip \in DOMAIN blocked_ips : blocked_ips[ip] = op.pre.blocked_ips[ip]
        /\ unblock_ip(Tables, op.ip) =
              [violations |-> violations, blocked_ips |-> blocked_ips, ret |-> TRUE]

\* an address with a violation record is unblocked while another address
\* has a record that stays
C13_Witness ==
    /\ LastUnblock
    /\ op.ip \in DOMAIN op.pre.violations
    /\ \E ip \in IPs \ {op.ip} : ip \in DOMAIN violations

\* ----------------------------------------------------------------- C16
\* C16: no address has a violation record and a block record at once; the
\* record_violation call that reaches the threshold leaves a block expiring
\* block_duration after the call and no violation record.
C16_BlockReplacesViolation ==
    /\ DOMAIN violations \cap DOMAIN blocked_ips = {}
    /\ (LastViolation /\ op.ret /\ ~is_blocked_at(op.pre, op.ip, now).ret) =>
            /\ op.ip \in DOMAIN blocked_ips
            /\ blocked_ips[op.ip] = now + block_duration * Res
            /\ op.ip \notin DOMAIN violations

\* the tenth violation of an address, made after time 0
C16_Witness ==
    /\ LastViolation
    /\ op.ret
    /\ now > 0
    /\ op.ip \in DOMAIN op.pre.violations
    /\ op.pre.violations[op.ip].count = violation_threshold - 1
    /\ op.ip \in DOMAIN blocked_ips

\* ----------------------------------------------------------------- C17
\* number of record_violation calls made before the concurrent ones
PriorCount == hb[TaskIP].streak

\* C17: concurrent record_violation calls for one address run their bodies
\* one at a time and none of their increments is lost: after N concurrent
\* calls on top of c earlier ones, the count is c + N if that is below the
\* threshold (from no record: N); otherwise exactly one call created the
\* block, the calls that returned FALSE are the threshold - 1 - c ones before
\* it, and no violation record is left.
C17_Serialized ==
    /\ Cardinality({t \in BTasks : bpc[t] \in {"check", "count"}}) <= 1
    /\ (\A t \in BTasks : bpc[t] = "done") =>
          IF PriorCount + NBTasks < violation_threshold
          THEN /\ TaskIP \in DOMAIN violations
               /\ violations[TaskIP].count = PriorCount + NBTasks
               /\ TaskIP \notin DOMAIN blocked_ips
               /\ \A t \in BTasks : ~bloc[t].ret
          ELSE /\ TaskIP \in DOMAIN blocked_ips
               /\ TaskIP \notin DOMAIN violations
               /\ Cardinality({t \in BTasks : ~bloc[t].ret})
                     = Max(0, violation_threshold - 1 - PriorCount)
               /\ Cardinality({t \in BTasks : bloc[t].promoted})
                     = (IF PriorCount < violation_threshold THEN 1 ELSE 0)

\* calls that overlapped bring the count from threshold - N to the
\* threshold: one of them created the block
C17_Witness ==
    /\ \A t \in BTasks : bpc[t] = "done"
    /\ \E t \in BTasks : bloc[t].contended
    /\ PriorCount = violation_threshold - NBTasks
    /\ Cardinality({t \in BTasks : bloc[t].promoted}) = 1
    /\ Cardinality({t \in BTasks : ~bloc[t].ret}) = NBTasks - 1

\* ----------------------------------------------------------------- C14
ThroughWrapper(o) == o.name \in {"middleware", "decorator"}

SourceKey(o) ==
    <<"rate_limit", ":">> \o o.key \o <<":">> \o
        (IF o.client = NoClient THEN <<"unknown">> ELSE o.client)
OverrideKey(o) == <<"rate_limit", ":">> \o o.key \o <<":">> \o o.identifier

\* a check that completed, for a request with an identifier override
WithOverride(o) ==
    /\ o.name \in {"middleware", "decorator", "check_rate_limit"}
    /\ o.checked /\ o.fault = "none"
    /\ ~falsy(o.identifier)

\* a check that completed, for a request without an identifier override
WithoutOverride(o) ==
    /\ o.name \in {"middleware", "decorator", "check_rate_limit"}
    /\ o.checked /\ o.fault = "none"
    /\ falsy(o.identifier)

\* the check consumed from the bucket bk: a fresh bucket, or one token fewer
ConsumedFrom(bk, o) ==
    /\ bk \in DOMAIN buckets' => buckets'[bk].tokens = o.result.remaining
    /\ (bk \in DOMAIN buckets /\ int_time(now) <= buckets[bk].reset_time)
          => o.result.remaining = Max(0, buckets[bk].tokens - 1)
    /\ bk \notin DOMAIN buckets
          => o.result.remaining = limits_for(o.key).requests - 1

\* C12 as stated: check_rate_limit accounts the request to the override when
\* one is given and to the source address otherwise; a check with an
\* override consumes from the bucket of (key, override) and leaves the
\* bucket of (key, source address) as it was.
C12_OverrideFrame ==
    [][/\ WithoutOverride(op') => ConsumedFrom(SourceKey(op'), op')
       /\ WithOverride(op') =>
            /\ ConsumedFrom(OverrideKey(op'), op')
            /\ Restrict(buckets', SourceKey(op')) = Restrict(buckets, SourceKey(op'))
      ]_vars

\* C12, with the sweep: a check with an override consumes from the bucket of
\* (key, override); the bucket of (key, source address) is as it was if its
\* reset_time is not before the time of the check, and is removed from the
\* store if it is; without an override the source address is the identifier.
C12_OverrideFrameSwept ==
    [][/\ WithoutOverride(op') => ConsumedFrom(SourceKey(op'), op')
       /\ WithOverride(op') =>
            /\ ConsumedFrom(OverrideKey(op'), op')
            /\ LET src == SourceKey(op')
               IN  IF src \in DOMAIN buckets
                      /\ ~(buckets[src].reset_time * Res < now)
                   THEN src \in DOMAIN buckets' /\ buckets'[src] = buckets[src]
                   ELSE src \notin DOMAIN buckets'
      ]_vars

\* a check with an override was made while the source address of the
\* request had a bucket under the same policy, which is still there
C12_Witness ==
    /\ WithOverride(op)
    /\ op.client # NoClient
    /\ SourceKey(op) \in DOMAIN buckets
    /\ OverrideKey(op) \in DOMAIN buckets
    /\ buckets[SourceKey(op)].reset_time = buckets[OverrideKey(op)].reset_time

\* ----------------------------------------------------------------- C11
\* C11: the middleware and the decorator answer 429 exactly when the
\* Decision of check_rate_limit has allowed = FALSE; a request whose check
\* failed open is not rejected; the Retry-After of a 429 is
\* max(1, reset_time - int(time.time())), which is at least 1.
C11_RejectIffDenied ==
    (ThroughWrapper(op) /\ op.checked) =>
        /\ (op.response.status = 429) = (~op.result.allowed)
        /\ op.fault # "none" => op.response.status = 200
        /\ op.response.status = 429 =>
              /\ op.response.retry_after >= 1
              /\ op.result.reset_time - int_time(now) >= 1
                    => op.response.retry_after
                         = op.result.reset_time - int_time(now)
              /\ op.result.reset_time - int_time(now) < 1
                    => op.response.retry_after = 1

\* a 429 for a Decision whose reset_time is already past: Retry-After is 1
C11_Witness ==
    /\ ThroughWrapper(op) /\ op.checked
    /\ op.response.status = 429
    /\ op.result.reset_time < int_time(now)
    /\ op.response.retry_after = 1

\* ----------------------------------------------------------------- C30
\* C30: between operations every stored violation record has a count from 1
\* to violation_threshold - 1.
C30_CountBelowThreshold ==
    \A ip \in DOMAIN violations :
        /\ violations[ip].count >= 1
        /\ violations[ip].count <= violation_threshold - 1

\* a record one violation short of the threshold is stored
C30_Witness ==
    \E ip \in DOMAIN violations : violations[ip].count = violation_threshold - 1

\* ----------------------------------------------------------------- C25
\* the call was made for an address whose block had not expired
C25Case ==
    /\ LastViolation
    /\ op.ip \in DOMAIN op.pre.blocked_ips
    /\ op.pre.blocked_ips[op.ip] > now

\* C25: record_violation for an address with an unexpired block returns TRUE
\* and leaves both tables as they were: the same expire_time for the block,
\* no violation record, every other address untouched.
C25_BlockedUnchanged ==
    C25Case =>
        /\ op.ret
        /\ blocked_ips = op.pre.blocked_ips
        /\ violations = op.pre.violations
        /\ op.ip \notin DOMAIN violations

\* a violation reported, later than the block was made, for a blocked
\* address while another address has a violation record
C25_Witness ==
    /\ C25Case
    /\ now > 0
    /\ op.pre.blocked_ips[op.ip] < now + block_duration * Res
    /\ \E ip \in IPs \ {op.ip} : ip \in DOMAIN violations

\* ----------------------------------------------------------------- C23
\* the address had a block record when the operation began
HadBlock == op.ip \in DOMAIN op.pre.blocked_ips

\* C23: a block made at time t expires block_duration later: is_blocked
\* returns TRUE before t + block_duration and FALSE from then on, leaving
\* the address without any record; a record_violation made from then on
\* opens a record with count 1 and returns FALSE.
C23_BlockExpires ==
    /\ (LastViolation /\ op.ret /\ ~is_blocked_at(op.pre, op.ip, now).ret)
          => blocked_ips[op.ip] = now + block_duration * Res
    /\ (op.name = "is_blocked" /\ HadBlock) =>
          /\ op.ret = (now < op.pre.blocked_ips[op.ip])
          /\ ~op.ret => /\ op.ip \notin DOMAIN blocked_ips
                         /\ op.ip \notin DOMAIN violations
    /\ (LastViolation /\ HadBlock /\ now >= op.pre.blocked_ips[op.ip]) =>
          /\ ~op.ret
          /\ op.ip \notin DOMAIN blocked_ips
          /\ op.ip \in DOMAIN violations
          /\ violations[op.ip].count = 1

\* a violation reported at the very time the block expires
C23_Witness ==
    /\ LastViolation /\ HadBlock
    /\ now = op.pre.blocked_ips[op.ip]
    /\ ~op.ret
    /\ violations[op.ip].count = 1

\* ----------------------------------------------------------------- C24
\* the address had a violation record when the operation began
HadViolations == op.ip \in DOMAIN op.pre.violations

\* C24: the expire_time of a violation record is the time of the call that
\* created it plus block_duration and later violations leave it alone; from
\* that time on the next record_violation or is_blocked discards the record,
\* and that record_violation opens a record with count 1 and returns FALSE.
C24_ExpireSetOnce ==
    /\ (LastViolation /\ ~HadViolations /\ ~op.ret) =>
          violations[op.ip] =
              [count |-> 1, expire_time |-> now + block_duration * Res]
    /\ (LastViolation /\ HadViolations
          /\ now < op.pre.violations[op.ip].expire_time
          /\ op.ip \in DOMAIN violations) =>
          /\ violations[op.ip].expire_time = op.pre.violations[op.ip].expire_time
          /\ violations[op.ip].count = op.pre.violations[op.ip].count + 1
    /\ (LastViolation /\ HadViolations
          /\ now >= op.pre.violations[op.ip].expire_time) =>
          /\ ~op.ret
          /\ op.ip \in DOMAIN violations
          /\ violations[op.ip] =
                [count |-> 1, expire_time |-> now + block_duration * Res]
    /\ (op.name = "is_blocked" /\ HadViolations) =>
          IF now >= op.pre.violations[op.ip].expire_time
          THEN op.ip \notin DOMAIN violations
          ELSE violations = op.pre.violations

\* a violation reported at the very expire_time of a record with count 2
C24_Witness ==
    /\ LastViolation /\ HadViolations
    /\ op.pre.violations[op.ip].count = 2
    /\ now = op.pre.violations[op.ip].expire_time
    /\ violations[op.ip].count = 1
    /\ ~op.ret

\* ----------------------------------------------------------------- C27
\* the call made the block of its address
Promoted ==
    /\ LastViolation /\ op.ret
    /\ ~is_blocked_at(op.pre, op.ip, now).ret

\* C27: a call makes a block only as the last of violation_threshold
\* record_violation calls for the address with no unblock_ip among them, all
\* made less than block_duration after the first of them.
C27_BlockOnlyInTime ==
    Promoted =>
        /\ hb[op.ip].run >= violation_threshold
        /\ now < hb[op.ip].start + block_duration * Res

\* a block made by ten violations in time, after an earlier record of the
\* address had expired
C27_Witness ==
    /\ Promoted
    /\ hb[op.ip].run = violation_threshold
    /\ hb[op.ip].streak > violation_threshold
    /\ hb[op.ip].start > 0

\* ----------------------------------------------------------------- C26
\* every stored bucket ends its window `window` seconds after it was made
WindowLength ==
    \A bk \in DOMAIN buckets :
        \E key \in Keys :
            /\ bk \in {bucket_key(key, i) : i \in CallIdentifiers}
            /\ buckets[bk].reset_time = buckets[bk].last_refill + win[key]

\* the bucket of the call, if still stored, has the reset_time and the
\* last_refill it was found with
C26Kept ==
    op.bk \in DOMAIN buckets =>
        /\ buckets[op.bk].reset_time = op.old[op.bk].reset_time
        /\ buckets[op.bk].last_refill = op.old[op.bk].last_refill

\* C26 as stated: a call that finds its bucket before the bucket's expiry
\* changes neither reset_time nor last_refill, and every Decision returned
\* in the window carries the reset_time of the bucket, which is the time the
\* bucket was made plus the window.
C26_FixedWindow ==
    /\ WindowLength
    /\ C18Unexpired =>
          /\ C26Kept
          /\ op.result.reset_time = op.old[op.bk].reset_time

\* C26, for Decisions of calls that did not fail open: a call that finds its
\* bucket before the bucket's expiry changes neither reset_time nor
\* last_refill, whether or not a store operation raises; its Decision, if no
\* store operation raised, carries the reset_time of the bucket.
C26_FixedWindowCompleted ==
    /\ WindowLength
    /\ C18Unexpired =>
          /\ C26Kept
          /\ op.fault = "none"
                => op.result.reset_time = op.old[op.bk].reset_time

\* a completed call in the last second of the window of its bucket, later
\* than the call that made the bucket
C26_Witness ==
    /\ C18Unexpired
    /\ op.fault = "none"
    /\ int_time(op.at) = op.old[op.bk].reset_time
    /\ op.result.reset_time = op.old[op.bk].reset_time
    /\ op.result.reset_time < int_time(op.at) + op.window

\* ----------------------------------------------------------------- C28
\* C28: the sweep cannot be observed: every call returns the Decision that
\* a limiter with the same calls and a store that never sweeps returns, and
\* a call that completes leaves the bucket of its key as that limiter does;
\* a bucket the sweep removes is one that is_allowed's own test
\* (current_time > reset_time) would have replaced.
C28_SweepTransparent ==
    LastCall =>
        /\ op.result = op.plain
        /\ op.fault = "none" => Restrict(buckets, op.bk) = Restrict(unswept, op.bk)
        /\ \A bk \in op.swept : int_time(op.at) > unswept[bk].reset_time

\* ----------------------------------------------------------------- C22
\* the bucket of a (policy key, identifier) pair, written out
PairKey(key, identifier) == <<"rate_limit", ":">> \o key \o <<":">> \o identifier

PolicyLimit(key) == (CHOOSE p \in Policies : p.key = key).limit

\* C22: a completed call takes no token from the buckets its identifier has
\* under other policy keys (an unexpired one is left as it is, none is
\* created), and the first call under a key for an identifier returns
\* remaining = limit - 1 of that key whatever was called under other keys.
C22_KeyedByPair ==
    [][(op'.name = "is_allowed" /\ op'.fault = "none") =>
          /\ op'.first => op'.result.remaining = PolicyLimit(op'.key) - 1
          /\ \A p \in Policies :
                p.key # op'.key =>
                  LET bk == PairKey(p.key, op'.identifier)
                  IN  /\ (bk \in DOMAIN buckets
                            /\ ~(buckets[bk].reset_time * Res < now))
                          => (bk \in DOMAIN buckets' /\ buckets'[bk] = buckets[bk])
                      /\ bk \in DOMAIN buckets' => bk \in DOMAIN buckets
      ]_vars

\* the first call under one key for an identifier that has used two tokens
\* under another key
C22_Witness ==
    /\ op.name = "is_allowed" /\ op.fault = "none" /\ op.first
    /\ op.result.remaining = PolicyLimit(op.key) - 1
    /\ \E p \in Policies :
          /\ p.key # op.key
          /\ PairKey(p.key, op.identifier) \in DOMAIN buckets
          /\ buckets[PairKey(p.key, op.identifier)].tokens = p.limit - 2

\* ----------------------------------------------------------------- C21
\* task t has returned, its identifier had no bucket when it began and no
\* other call in progress or returned is for the same identifier
C21Case(t) ==
    /\ pc[t] = "done"
    /\ ~loc[t].had
    /\ \A u \in Tasks \ {t} :
          pc[u] # "idle" => loc[u].identifier # loc[t].identifier

\* C21: concurrent is_allowed calls for pairwise distinct identifiers none
\* of which had a bucket return allowed = TRUE and remaining = limit - 1
\* each, however their get_bucket and set_bucket steps interleave.
C21_DistinctIdentifiers ==
    \A t \in Tasks :
        C21Case(t) =>
            /\ loc[t].result.allowed
            /\ loc[t].result.remaining = lim[TaskKey] - 1

\* two overlapping calls for different identifiers have returned, under a
\* limit of 2
C21_Witness ==
    /\ overlap
    /\ lim[TaskKey] = 2
    /\ C21Case(1) /\ C21Case(2)
    /\ loc[1].result.remaining = 1 /\ loc[2].result.remaining = 1

\* ----------------------------------------------------------------- C29
\* the policy names of the endpoints that are not in default_limits
UnknownNames == {ep.key : ep \in Endpoints} \ DOMAIN default_limits

\* the identifier a request is accounted to
AccountedTo(o) ==
    IF ~falsy(o.identifier) THEN o.identifier
    ELSE IF o.client = NoClient THEN <<"unknown">> ELSE o.client

\* a check that completed
Completed(o) ==
    /\ o.name \in {"middleware", "decorator", "check_rate_limit"}
    /\ o.checked /\ o.fault = "none"

\* no token is taken from the bucket bk: it is as it was if its reset_time
\* is not before the time of the check, and it is not created
NothingTaken(bk) ==
    /\ (bk \in DOMAIN buckets /\ ~(buckets[bk].reset_time * Res < now))
          => (bk \in DOMAIN buckets' /\ buckets'[bk] = buckets[bk])
    /\ bk \in DOMAIN buckets' => bk \in DOMAIN buckets

\* C29: a request under a policy name that is not in default_limits is
\* accounted to the bucket keyed by that name as given and the identifier,
\* and takes no token from the 'default' bucket of the identifier; a request
\* under 'default' takes none from the bucket of the unknown name.
C29_UnknownNameOwnBucket ==
    [][Completed(op') =>
          /\ op'.key \in UnknownNames =>
                /\ ConsumedFrom(PairKey(op'.key, AccountedTo(op')), op')
                /\ NothingTaken(PairKey(<<"default">>, AccountedTo(op')))
          /\ op'.key = <<"default">> =>
                \A k \in UnknownNames :
                    NothingTaken(PairKey(k, AccountedTo(op')))
      ]_vars

\* a request under the unknown name got the full limit minus 1 from its own
\* bucket while the 'default' bucket of the same identifier has two tokens
\* fewer than the limit
C29_Witness ==
    /\ op.name = "decorator" /\ op.checked /\ op.fault = "none"
    /\ op.key \in UnknownNames
    /\ LET own == PairKey(op.key, AccountedTo(op))
           dflt == PairKey(<<"default">>, AccountedTo(op))
       IN  /\ own \in DOMAIN buckets /\ dflt \in DOMAIN buckets
           /\ buckets[dflt].tokens = limits_for(<<"default">>).requests - 2
           /\ buckets[own].tokens = limits_for(op.key).requests - 1
           /\ op.result.remaining = buckets[own].tokens

====
